---- MODULE Spec2Model ----
(***************************************************************************)
(* The session state coordinator of boost-geo: the App component of        *)
(* src/unnamed/part_000 (multi-alternative routes, selection, drawing      *)
(* mode, simulated peer) and the earlier single-route App of               *)
(* src/src/App.tsx.                                                        *)
(*                                                                         *)
(* React runs every event handler to completion, then renders and runs the *)
(* effects whose dependencies changed; one action of the model is one      *)
(* handler together with the render and the effects it causes.  The only   *)
(* suspension point is the routing request: its response is an action of   *)
(* its own (Response).                                                     *)
(*                                                                         *)
(* A JavaScript value that may be null is modelled as a sequence of length *)
(* 0 (null) or 1 (the value).                                              *)
(***************************************************************************)
EXTENDS Integers, Sequences, FiniteSets, TLC

\* ------------------------------------------------------------------ bounds
MaxWaypoints == 3
MaxPending == 2
MaxAlts == 3
MaxVertices == 2
MaxBlips == 3
MaxClock == 3
MaxTicks == 8

\* --------------------------------------------------------------- constants
\* Coordinates are [longitude, latitude] pairs, in thousandths of a degree.
InitialBlipCoord == <<-122450, 37770>>
OtherCoord == <<-122400, 37800>>
Coords == {InitialBlipCoord, OtherCoord}

alicePath ==
  << <<-122410, 37780>>, <<-122415, 37782>>, <<-122420, 37785>>,
     <<-122425, 37782>>, <<-122420, 37780>>, <<-122415, 37778>>,
     <<-122410, 37780>> >>

Null == <<>>
Some(v) == <<v>>
Val(o) == o[1]

Slots == 1..MaxPending

VARIABLES
  mounted,             \* the App component is mounted
  aliceLocation,       \* friends: location of the friend with id 1
  ticks,               \* firings of the simulation interval so far (history)
  blips,               \* Blip[]
  waypoints,           \* [number, number][]
  routes,              \* RouteData[]
  selectedRouteIndex,
  isLoadingRoute,
  selection,           \* {lng, lat} | null
  selectedWaypoint,    \* {index, lng, lat} | null
  selectedBlip,        \* Blip | null
  userLocation,        \* [number, number] | null
  isDrawing,
  drawnPolygon,        \* [number, number][]
  requests,            \* fetchRoutes calls in flight, with the isMounted flag of their effect run
  cleanup,             \* the slot whose effect run registered a cleanup; 0 when the last run registered none
  now,                 \* the reading of Date.now()
  lastEvent,           \* the event processed last (history)
  sWaypoints,          \* single-route App: waypoints
  sRoute,              \* single-route App: route
  sSelection,          \* single-route App: selection
  sBlips,              \* single-route App: blips
  sRequests,           \* single-route App: fetchRoute calls in flight
  sCleanup             \* single-route App: as cleanup

appVars ==
  <<mounted, aliceLocation, ticks, blips, waypoints, routes, selectedRouteIndex,
    isLoadingRoute, selection, selectedWaypoint, selectedBlip, userLocation,
    isDrawing, drawnPolygon, requests, cleanup, now>>

singleVars == <<sWaypoints, sRoute, sSelection, sBlips, sRequests, sCleanup>>

vars == <<appVars, singleVars, lastEvent>>

\* The history variable lastEvent: the handler that ran last, its argument,
\* and for an applied response the outcome of its fetch.
NoOutcome == [kind |-> "none", routes |-> <<>>]

Event(op, arg) == [op |-> op, arg |-> arg, outcome |-> NoOutcome]

ResponseEvent(op, s, o) == [op |-> op, arg |-> s, outcome |-> o]

\* ------------------------------------------------------- routing service
\* What one call of fetch() can produce: the request fails, the status is not
\* ok, the body does not parse, or the body parses and its routes is absent,
\* not a list (an object with neither map nor length), or a list of route
\* objects.  A route object is complete, or
\* lacks geometry, or has a geometry without coordinates; the lists drawn
\* are those of complete route objects and those of one incomplete object.
RouteLists ==
  {[i \in 1..n |-> "ok"] : n \in 0..MaxAlts} \cup {<<"noGeometry">>, <<"noCoordinates">>}

FailureKinds == {"networkError", "httpError", "parseError"}

Outcomes ==
  {[kind |-> k, routes |-> <<>>] : k \in FailureKinds \cup {"routesAbsent", "routesNotAList"}}
  \cup {[kind |-> "json", routes |-> l] : l \in RouteLists}

\* The value of a property that is missing.
Undefined == << <<>> >>

\* The geometry the service draws for alternative i of the query wps: the
\* queried waypoints joined through a point of the road network.
ViaPoint(i) == <<-122430 - i, 37790>>

RouteGeometry(i, wps) == <<wps[1], ViaPoint(i)>> \o Tail(wps)

\* The i-th route object of a body answering the query wps.
RouteObject(shape, i, wps) ==
  [geometry |-> IF shape = "noGeometry" THEN Null
                ELSE Some(IF shape = "noCoordinates" THEN Undefined ELSE RouteGeometry(i, wps)),
   duration |-> 600 * i,
   distance |-> 5000 * i]

Body(outcome, wps) ==
  [i \in 1..Len(outcome.routes) |-> RouteObject(outcome.routes[i], i, wps)]

\* r => ({ coordinates: r.geometry.coordinates, duration, distance })
ToRouteData(r) ==
  [coordinates |-> Val(r.geometry), duration |-> r.duration, distance |-> r.distance]

\* waypoints.map(p => p.join(',')).join(';') of the request URL: the numbers
\* of the string, in the order in which they are written.
RECURSIVE CoordString(_)
CoordString(wps) ==
  IF wps = <<>> THEN <<>>
  ELSE <<wps[1][1], wps[1][2]>> \o CoordString(Tail(wps))

\* fetchRoutes: every throw inside the try block is caught and gives [].
fetchRoutes(wps, outcome) ==
  IF Len(wps) < 2 THEN <<>>
  ELSE IF outcome.kind # "json" THEN <<>>
  ELSE LET body == Body(outcome, wps) IN
       IF \E i \in 1..Len(body) : body[i].geometry = Null THEN <<>>
       ELSE [i \in 1..Len(body) |-> ToRouteData(body[i])]

\* -------------------------------------------------------------- the effect
\* Variant of RunCleanup that leaves every isMounted flag as it is.
RunCleanupSkipped(reqs, c) == reqs

\* The cleanup of the previous effect run: isMounted = false.
RunCleanup(reqs, c) ==
  [s \in Slots |->
     IF s = c /\ reqs[s] # Null
     THEN Some([Val(reqs[s]) EXCEPT !.isMounted = FALSE])
     ELSE reqs[s]]

FreeSlots(reqs) == {s \in Slots : reqs[s] = Null}

LowestFree(reqs) == CHOOSE s \in FreeSlots(reqs) : \A t \in FreeSlots(reqs) : s <= t

\* A change of waypoints to w can be processed within the model's bounds.
WithinBounds(w) == Len(w) <= MaxWaypoints /\ (Len(w) >= 2 => FreeSlots(requests) # {})

\* Variant of WaypointsEffect whose short branch leaves routes at rts.
WaypointsEffectKeepsRoutes(w, rts) ==
  LET cleaned == RunCleanup(requests, cleanup) IN
  IF Len(w) < 2
  THEN /\ routes' = rts
       /\ requests' = cleaned
       /\ cleanup' = 0
       /\ UNCHANGED <<isLoadingRoute, selectedRouteIndex>>
  ELSE LET s == LowestFree(cleaned) IN
       /\ routes' = rts
       /\ isLoadingRoute' = TRUE
       /\ requests' = [cleaned EXCEPT ![s] = Some([wps |-> w, coords |-> CoordString(w),
                                                    isMounted |-> TRUE])]
       /\ cleanup' = s
       /\ UNCHANGED selectedRouteIndex

\* The effect on [waypoints], run after a handler set waypoints to the new
\* array w and left routes at rts (Clear All Waypoints sets it to []).
WaypointsEffect(w, rts) ==
  LET cleaned == RunCleanup(requests, cleanup) IN
  IF Len(w) < 2
  THEN /\ routes' = <<>>
       /\ requests' = cleaned
       /\ cleanup' = 0
       /\ UNCHANGED <<isLoadingRoute, selectedRouteIndex>>
  ELSE LET s == LowestFree(cleaned) IN
       /\ routes' = rts
       /\ isLoadingRoute' = TRUE
       /\ requests' = [cleaned EXCEPT ![s] = Some([wps |-> w, coords |-> CoordString(w),
                                                    isMounted |-> TRUE])]
       /\ cleanup' = s
       /\ UNCHANGED selectedRouteIndex

\* -------------------------------------------------------------------- Init
InitialBlip == [id |-> 1, longitude |-> InitialBlipCoord[1], latitude |-> InitialBlipCoord[2], text |-> 0]

Init ==
  /\ mounted = TRUE
  /\ aliceLocation = alicePath[1]
  /\ ticks = 0
  /\ blips = <<InitialBlip>>
  /\ waypoints = <<>>
  /\ routes = <<>>
  /\ selectedRouteIndex = 0
  /\ isLoadingRoute = FALSE
  /\ selection = Null
  /\ selectedWaypoint = Null
  /\ selectedBlip = Null
  /\ userLocation = Null
  /\ isDrawing = FALSE
  /\ drawnPolygon = <<>>
  /\ requests = [s \in Slots |-> Null]
  /\ cleanup = 0
  /\ now = 2
  /\ lastEvent = Event("init", 0)
  /\ sWaypoints = <<>>
  /\ sRoute = <<>>
  /\ sSelection = Null
  /\ sBlips = <<InitialBlip>>
  /\ sRequests = [s \in Slots |-> Null]
  /\ sCleanup = 0

\* ---------------------------------------------------------------- handlers
Coord(c) == [lng |-> c[1], lat |-> c[2]]

\* A variant of handleMapClick whose surface click keeps the marker selections.
handleMapClickKeepsRefs(c, hitMarker, selWp, selBlip) ==
  IF isDrawing
  THEN /\ drawnPolygon' = Append(drawnPolygon, <<c[1], c[2]>>)
       /\ selection' = selection
       /\ selectedWaypoint' = selWp
       /\ selectedBlip' = selBlip
  ELSE IF hitMarker
  THEN /\ selection' = selection
       /\ selectedWaypoint' = selWp
       /\ selectedBlip' = selBlip
       /\ UNCHANGED drawnPolygon
  ELSE /\ selection' = Some(Coord(c))
       /\ selectedWaypoint' = selWp
       /\ selectedBlip' = selBlip
       /\ UNCHANGED drawnPolygon

\* handleMapClick; hitMarker: e.originalEvent.target is inside a marker.
handleMapClick(c, hitMarker, selWp, selBlip) ==
  IF isDrawing
  THEN /\ drawnPolygon' = Append(drawnPolygon, <<c[1], c[2]>>)
       /\ selection' = selection
       /\ selectedWaypoint' = selWp
       /\ selectedBlip' = selBlip
  ELSE IF hitMarker
  THEN /\ selection' = selection
       /\ selectedWaypoint' = selWp
       /\ selectedBlip' = selBlip
       /\ UNCHANGED drawnPolygon
  ELSE /\ selection' = Some(Coord(c))
       /\ selectedWaypoint' = Null
       /\ selectedBlip' = Null
       /\ UNCHANGED drawnPolygon

DrawingWithinBounds == isDrawing => Len(drawnPolygon) < MaxVertices

\* A click on the map surface, outside every marker.
SurfaceClick(c) ==
  /\ mounted
  /\ DrawingWithinBounds
  /\ handleMapClick(c, FALSE, selectedWaypoint, selectedBlip)
  /\ lastEvent' = Event("surfaceClick", 0)
  /\ UNCHANGED <<mounted, aliceLocation, ticks, blips, waypoints, routes, selectedRouteIndex,
                 isLoadingRoute, userLocation, isDrawing, requests, cleanup, now, singleVars>>

\* A click on the marker of blips[i]: the marker's onClick, then the map's
\* click handler with the marker as target.  c is the clicked coordinate.
BlipMarkerClick(i, c) ==
  /\ mounted
  /\ i \in 1..Len(blips)
  /\ DrawingWithinBounds
  /\ handleMapClick(c, TRUE, selectedWaypoint, Some(blips[i]))
  /\ lastEvent' = Event("blipMarkerClick", i)
  /\ UNCHANGED <<mounted, aliceLocation, ticks, blips, waypoints, routes, selectedRouteIndex,
                 isLoadingRoute, userLocation, isDrawing, requests, cleanup, now, singleVars>>

\* A click on the marker of waypoints[i] (1-based here, index i-1 in the code).
WaypointMarkerClick(i, c) ==
  /\ mounted
  /\ i \in 1..Len(waypoints)
  /\ DrawingWithinBounds
  /\ handleMapClick(c, TRUE, Some([index |-> i - 1, lng |-> waypoints[i][1], lat |-> waypoints[i][2]]),
                    selectedBlip)
  /\ lastEvent' = Event("waypointMarkerClick", i - 1)
  /\ UNCHANGED <<mounted, aliceLocation, ticks, blips, waypoints, routes, selectedRouteIndex,
                 isLoadingRoute, userLocation, isDrawing, requests, cleanup, now, singleVars>>

\* onClose of the three popups.
CloseSelectionPopup ==
  /\ mounted
  /\ selection # Null
  /\ selection' = Null
  /\ lastEvent' = Event("closeSelection", 0)
  /\ UNCHANGED <<mounted, aliceLocation, ticks, blips, waypoints, routes, selectedRouteIndex,
                 isLoadingRoute, selectedWaypoint, selectedBlip, userLocation, isDrawing,
                 drawnPolygon, requests, cleanup, now, singleVars>>

CloseWaypointPopup ==
  /\ mounted
  /\ selectedWaypoint # Null
  /\ selectedWaypoint' = Null
  /\ lastEvent' = Event("closeWaypoint", 0)
  /\ UNCHANGED <<mounted, aliceLocation, ticks, blips, waypoints, routes, selectedRouteIndex,
                 isLoadingRoute, selection, selectedBlip, userLocation, isDrawing,
                 drawnPolygon, requests, cleanup, now, singleVars>>

CloseBlipPopup ==
  /\ mounted
  /\ selectedBlip # Null
  /\ selectedBlip' = Null
  /\ lastEvent' = Event("closeBlip", 0)
  /\ UNCHANGED <<mounted, aliceLocation, ticks, blips, waypoints, routes, selectedRouteIndex,
                 isLoadingRoute, selection, selectedWaypoint, userLocation, isDrawing,
                 drawnPolygon, requests, cleanup, now, singleVars>>

\* addBlip
addBlip ==
  /\ mounted
  /\ Len(blips) < MaxBlips
  /\ IF selection # Null
     THEN /\ blips' = Append(blips, [id |-> now, longitude |-> Val(selection).lng,
                                     latitude |-> Val(selection).lat, text |-> Len(blips) + 1])
          /\ selection' = Null
     ELSE UNCHANGED <<blips, selection>>
  /\ lastEvent' = Event("addBlip", 0)
  /\ UNCHANGED <<mounted, aliceLocation, ticks, waypoints, routes, selectedRouteIndex,
                 isLoadingRoute, selectedWaypoint, selectedBlip, userLocation, isDrawing,
                 drawnPolygon, requests, cleanup, now, singleVars>>

\* Variant of AppendWaypoint that puts the new entry first.
AppendWaypointInFront(p, sel) == <<<<sel.lng, sel.lat>>>> \o p

\* p => [...p, [selection.lng, selection.lat]]
AppendWaypoint(p, sel) == Append(p, <<sel.lng, sel.lat>>)

\* addWaypoint
addWaypoint ==
  /\ mounted
  /\ IF selection # Null
     THEN LET w == AppendWaypoint(waypoints, Val(selection)) IN
          /\ WithinBounds(w)
          /\ waypoints' = w
          /\ selection' = Null
          /\ WaypointsEffect(w, routes)
     ELSE UNCHANGED <<waypoints, selection, routes, selectedRouteIndex, isLoadingRoute,
                      requests, cleanup>>
  /\ lastEvent' = Event("addWaypoint", 0)
  /\ UNCHANGED <<mounted, aliceLocation, ticks, blips, selectedWaypoint, selectedBlip, userLocation,
                 isDrawing, drawnPolygon, now, singleVars>>

\* Variant of FilterOut that drops the element after position i.
FilterOutOffByOne(p, i) ==
  LET keep == {k \in 1..Len(p) : k # i + 2}
      pos(n) == CHOOSE k \in keep : Cardinality({j \in keep : j < k}) = n - 1
  IN [n \in 1..Cardinality(keep) |-> p[pos(n)]]

\* p.filter((_, idx) => idx !== i), with the code's 0-based i
FilterOut(p, i) ==
  LET keep == {k \in 1..Len(p) : k - 1 # i}
      pos(n) == CHOOSE k \in keep : Cardinality({j \in keep : j < k}) = n - 1
  IN [n \in 1..Cardinality(keep) |-> p[pos(n)]]

\* The Delete button of the waypoint popup: deleteWaypoint(selectedWaypoint.index)
deleteWaypoint ==
  /\ mounted
  /\ selectedWaypoint # Null
  /\ LET i == Val(selectedWaypoint).index
         w == FilterOut(waypoints, i)
     IN /\ WithinBounds(w)
        /\ waypoints' = w
        /\ selectedWaypoint' = Null
        /\ WaypointsEffect(w, routes)
        /\ lastEvent' = Event("deleteWaypoint", i)
  /\ UNCHANGED <<mounted, aliceLocation, ticks, blips, selection, selectedBlip, userLocation,
                 isDrawing, drawnPolygon, now, singleVars>>

\* A variant of routeToBlip that leaves the blip selected.
routeToBlipKeepsBlip ==
  /\ mounted
  /\ selectedBlip # Null
  /\ IF userLocation # Null
     THEN LET w == <<Val(userLocation), <<Val(selectedBlip).longitude, Val(selectedBlip).latitude>> >> IN
          /\ WithinBounds(w)
          /\ waypoints' = w
          /\ UNCHANGED selectedBlip
          /\ WaypointsEffect(w, routes)
     ELSE UNCHANGED <<waypoints, selectedBlip, routes, selectedRouteIndex, isLoadingRoute,
                      requests, cleanup>>
  /\ lastEvent' = Event("routeToBlip", 0)
  /\ UNCHANGED <<mounted, aliceLocation, ticks, blips, selection, selectedWaypoint, userLocation,
                 isDrawing, drawnPolygon, now, singleVars>>

\* routeToBlip
routeToBlip ==
  /\ mounted
  /\ selectedBlip # Null
  /\ IF userLocation # Null
     THEN LET w == <<Val(userLocation), <<Val(selectedBlip).longitude, Val(selectedBlip).latitude>> >> IN
          /\ WithinBounds(w)
          /\ waypoints' = w
          /\ selectedBlip' = Null
          /\ WaypointsEffect(w, routes)
     ELSE UNCHANGED <<waypoints, selectedBlip, routes, selectedRouteIndex, isLoadingRoute,
                      requests, cleanup>>
  /\ lastEvent' = Event("routeToBlip", 0)
  /\ UNCHANGED <<mounted, aliceLocation, ticks, blips, selection, selectedWaypoint, userLocation,
                 isDrawing, drawnPolygon, now, singleVars>>

\* onLocate of the map controls
Locate(c) ==
  /\ mounted
  /\ userLocation' = Some(<<c[1], c[2]>>)
  /\ lastEvent' = Event("locate", 0)
  /\ UNCHANGED <<mounted, aliceLocation, ticks, blips, waypoints, routes, selectedRouteIndex,
                 isLoadingRoute, selection, selectedWaypoint, selectedBlip, isDrawing,
                 drawnPolygon, requests, cleanup, now, singleVars>>

\* Variant of toggleDrawing that keeps drawnPolygon when drawing starts.
toggleDrawingKeepsArea ==
  /\ mounted
  /\ isDrawing' = ~isDrawing
  /\ IF isDrawing
     THEN UNCHANGED <<drawnPolygon, waypoints, routes, selectedRouteIndex, isLoadingRoute,
                      requests, cleanup>>
     ELSE /\ UNCHANGED drawnPolygon
          /\ waypoints' = <<>>
          /\ WaypointsEffect(<<>>, routes)
  /\ lastEvent' = Event("toggleDrawing", Len(drawnPolygon))
  /\ UNCHANGED <<mounted, aliceLocation, ticks, blips, selection, selectedWaypoint, selectedBlip,
                 userLocation, now, singleVars>>

\* Variant of toggleDrawing that empties drawnPolygon in both directions.
toggleDrawingAlwaysClears ==
  /\ mounted
  /\ isDrawing' = ~isDrawing
  /\ drawnPolygon' = <<>>
  /\ IF isDrawing
     THEN UNCHANGED <<waypoints, routes, selectedRouteIndex, isLoadingRoute, requests, cleanup>>
     ELSE /\ waypoints' = <<>>
          /\ WaypointsEffect(<<>>, routes)
  /\ lastEvent' = Event("toggleDrawing", Len(drawnPolygon))
  /\ UNCHANGED <<mounted, aliceLocation, ticks, blips, selection, selectedWaypoint, selectedBlip,
                 userLocation, now, singleVars>>

\* toggleDrawing; the event records the number of vertices held when the
\* button was pressed.
toggleDrawing ==
  /\ mounted
  /\ isDrawing' = ~isDrawing
  /\ IF isDrawing
     THEN UNCHANGED <<drawnPolygon, waypoints, routes, selectedRouteIndex, isLoadingRoute,
                      requests, cleanup>>
     ELSE /\ drawnPolygon' = <<>>
          /\ waypoints' = <<>>
          /\ WaypointsEffect(<<>>, routes)
  /\ lastEvent' = Event("toggleDrawing", Len(drawnPolygon))
  /\ UNCHANGED <<mounted, aliceLocation, ticks, blips, selection, selectedWaypoint, selectedBlip,
                 userLocation, now, singleVars>>

\* The Clear All Waypoints button: setWaypoints([]); setRoutes([])
clearWaypoints ==
  /\ mounted
  /\ Len(waypoints) > 0
  /\ ~isDrawing
  /\ waypoints' = <<>>
  /\ WaypointsEffect(<<>>, <<>>)
  /\ lastEvent' = Event("clearWaypoints", 0)
  /\ UNCHANGED <<mounted, aliceLocation, ticks, blips, selection, selectedWaypoint, selectedBlip,
                 userLocation, isDrawing, drawnPolygon, now, singleVars>>

\* The Clear Area button: setDrawnPolygon([])
clearDrawnArea ==
  /\ mounted
  /\ Len(drawnPolygon) > 0
  /\ ~isDrawing
  /\ drawnPolygon' = <<>>
  /\ lastEvent' = Event("clearDrawnArea", 0)
  /\ UNCHANGED <<mounted, aliceLocation, ticks, blips, waypoints, routes, selectedRouteIndex,
                 isLoadingRoute, selection, selectedWaypoint, selectedBlip, userLocation,
                 isDrawing, requests, cleanup, now, singleVars>>

\* Variant of selectRoute that is offered for every index, stored or not.
selectRouteAnyIndex(index) ==
  /\ mounted
  /\ selectedRouteIndex' = index
  /\ lastEvent' = Event("selectRoute", index)
  /\ UNCHANGED <<mounted, aliceLocation, ticks, blips, waypoints, routes, isLoadingRoute,
                 selection, selectedWaypoint, selectedBlip, userLocation, isDrawing,
                 drawnPolygon, requests, cleanup, now, singleVars>>

\* The route buttons: setSelectedRouteIndex(index).  One button is rendered
\* per element of routes, so index is a position of routes.
selectRoute(index) ==
  /\ mounted
  /\ index \in 0..(Len(routes) - 1)
  /\ selectedRouteIndex' = index
  /\ lastEvent' = Event("selectRoute", index)
  /\ UNCHANGED <<mounted, aliceLocation, ticks, blips, waypoints, routes, isLoadingRoute, selection,
                 selectedWaypoint, selectedBlip, userLocation, isDrawing, drawnPolygon,
                 requests, cleanup, now, singleVars>>

\* ------------------------------------------------------- the display order
\* list.indexOf(x), 0-based, -1 when absent
indexOf(list, x) ==
  IF \E k \in 1..Len(list) : list[k] = x
  THEN (CHOOSE k \in 1..Len(list) : list[k] = x /\ \A j \in 1..(k - 1) : list[j] # x) - 1
  ELSE -1

\* Variant of compareFn that orders the active alternative first.
compareFnActiveFirst(a, b) == IF indexOf(routes, a) = selectedRouteIndex THEN -1 ELSE 1

\* (a, b) => (routes.indexOf(a) === selectedRouteIndex ? 1 : -1)
compareFn(a, b) == IF indexOf(routes, a) = selectedRouteIndex THEN 1 ELSE -1

\* Array.prototype.sort calls compareFn in an order its algorithm chooses,
\* and compareFn ignores b, so the result depends on the algorithm.  Two
\* are modelled: the run detection followed by binary insertion that a
\* merge sort with natural runs applies to a short array, and the plain
\* insertion sort.
SortAlgorithms == {"binaryInsertion", "insertion"}

Reverse(a) == [k \in 1..Len(a) |-> a[Len(a) + 1 - k]]

\* a with the element at position from moved to position to (to <= from)
MoveTo(a, from, to) ==
  [k \in 1..Len(a) |-> IF k < to \/ k > from THEN a[k]
                        ELSE IF k = to THEN a[from] ELSE a[k - 1]]

\* The length of the run that starts the array, the run reaching k - 1.
RECURSIVE RunEnd(_, _, _)
RunEnd(a, k, descending) ==
  IF k > Len(a) THEN k - 1
  ELSE LET order == compareFn(a[k], a[k - 1]) IN
       IF (descending /\ order >= 0) \/ (~descending /\ order < 0) THEN k - 1
       ELSE RunEnd(a, k + 1, descending)

\* The position (0-based) at which pivot goes into the sorted a[left..right-1]
RECURSIVE BinarySearch(_, _, _, _)
BinarySearch(a, pivot, left, right) ==
  IF left >= right THEN left
  ELSE LET mid == left + ((right - left) \div 2) IN
       IF compareFn(pivot, a[mid + 1]) < 0
       THEN BinarySearch(a, pivot, left, mid)
       ELSE BinarySearch(a, pivot, mid + 1, right)

\* Binary insertion of a[start..] (0-based) into the sorted a[0..start-1]
RECURSIVE BinaryInsertionSort(_, _)
BinaryInsertionSort(a, start) ==
  IF start >= Len(a) THEN a
  ELSE LET left == BinarySearch(a, a[start + 1], 0, start) IN
       BinaryInsertionSort(MoveTo(a, start + 1, left + 1), start + 1)

\* The position (0-based) at which the item at position i goes in a plain
\* insertion: it moves left past every element that compares greater.
RECURSIVE LinearSearch(_, _, _)
LinearSearch(a, item, j) ==
  IF j < 1 THEN 0
  ELSE IF compareFn(a[j], item) <= 0 THEN j
  ELSE LinearSearch(a, item, j - 1)

RECURSIVE InsertionSort(_, _)
InsertionSort(a, start) ==
  IF start >= Len(a) THEN a
  ELSE LET left == LinearSearch(a, a[start + 1], start) IN
       InsertionSort(MoveTo(a, start + 1, left + 1), start + 1)

sort(a, algorithm) ==
  IF Len(a) < 2 THEN a
  ELSE IF algorithm = "insertion" THEN InsertionSort(a, 1)
  ELSE LET descending == compareFn(a[2], a[1]) < 0
           run == RunEnd(a, 3, descending)
           made == IF descending
                   THEN Reverse(SubSeq(a, 1, run)) \o SubSeq(a, run + 1, Len(a))
                   ELSE a
       IN BinaryInsertionSort(made, run)

\* const sortedRoutes = [...routes].sort(...)
sortedRoutes(algorithm) == sort(routes, algorithm)

\* A click on the k-th route drawn on the map:
\* setSelectedRouteIndex(routes.indexOf(r)) for r = sortedRoutes[k]
clickRoute(k, algorithm) ==
  /\ mounted
  /\ k \in 1..Len(sortedRoutes(algorithm))
  /\ LET originalIndex == indexOf(routes, sortedRoutes(algorithm)[k]) IN
     /\ selectedRouteIndex' = originalIndex
     /\ lastEvent' = Event("clickRoute", originalIndex)
  /\ UNCHANGED <<mounted, aliceLocation, ticks, blips, waypoints, routes, isLoadingRoute,
                 selection, selectedWaypoint, selectedBlip, userLocation, isDrawing,
                 drawnPolygon, requests, cleanup, now, singleVars>>

\* Variant of ApplyRoutes without setSelectedRouteIndex(0).
ApplyRoutesKeepsIndex(d) ==
  /\ routes' = d
  /\ UNCHANGED selectedRouteIndex
  /\ isLoadingRoute' = FALSE

\* The body of if (isMounted) { ... } in the effect's then-callback.
ApplyRoutes(d) ==
  /\ routes' = d
  /\ selectedRouteIndex' = 0
  /\ isLoadingRoute' = FALSE

\* A variant of Response whose callback does not look at isMounted.
ResponseIgnoresIsMounted(s) ==
  /\ requests[s] # Null
  /\ LET r == Val(requests[s]) IN
     /\ requests' = [requests EXCEPT ![s] = Null]
     /\ \E o \in Outcomes :
          /\ ApplyRoutes(fetchRoutes(r.wps, o))
          /\ lastEvent' = ResponseEvent("responseApplied", s, o)
  /\ UNCHANGED <<mounted, aliceLocation, ticks, blips, waypoints, selection, selectedWaypoint,
                 selectedBlip, userLocation, isDrawing, drawnPolygon, cleanup, now, singleVars>>

\* fetchRoutes(waypoints).then(d => { if (isMounted) { ... } }) for the call
\* in slot s; o is the outcome of its fetch.
Response(s) ==
  /\ requests[s] # Null
  /\ LET r == Val(requests[s]) IN
     /\ requests' = [requests EXCEPT ![s] = Null]
     /\ IF r.isMounted
        THEN \E o \in Outcomes :
               /\ ApplyRoutes(fetchRoutes(r.wps, o))
               /\ lastEvent' = ResponseEvent("responseApplied", s, o)
        ELSE /\ UNCHANGED <<routes, selectedRouteIndex, isLoadingRoute>>
             /\ lastEvent' = Event("responseDropped", s)
  /\ UNCHANGED <<mounted, aliceLocation, ticks, blips, waypoints, selection, selectedWaypoint,
                 selectedBlip, userLocation, isDrawing, drawnPolygon, cleanup, now, singleVars>>

\* alicePath.findIndex(p => p[0] === longitude && p[1] === latitude), 0-based, -1 when absent
findIndex(path, loc) ==
  IF \E k \in 1..Len(path) : path[k] = loc
  THEN (CHOOSE k \in 1..Len(path) : path[k] = loc /\ \A j \in 1..(k - 1) : path[j] # loc) - 1
  ELSE -1

\* One firing of the interval of the simulation effect.
Tick ==
  /\ mounted
  /\ ticks < MaxTicks
  /\ ticks' = ticks + 1
  /\ LET currentIndex == findIndex(alicePath, aliceLocation)
         nextIndex == (currentIndex + 1) % Len(alicePath)
     IN aliceLocation' = alicePath[nextIndex + 1]
  /\ lastEvent' = Event("tick", 0)
  /\ UNCHANGED <<mounted, blips, waypoints, routes, selectedRouteIndex, isLoadingRoute,
                 selection, selectedWaypoint, selectedBlip, userLocation, isDrawing,
                 drawnPolygon, requests, cleanup, now, singleVars>>

\* The clock read by Date.now() moves on.
ClockAdvance ==
  /\ now < MaxClock
  /\ now' = now + 1
  /\ UNCHANGED <<mounted, aliceLocation, ticks, blips, waypoints, routes, selectedRouteIndex,
                 isLoadingRoute, selection, selectedWaypoint, selectedBlip, userLocation,
                 isDrawing, drawnPolygon, requests, cleanup, lastEvent, singleVars>>

\* Variant of Unmount that skips the cleanup of the route effect.
UnmountKeepsRequests ==
  /\ mounted
  /\ mounted' = FALSE
  /\ lastEvent' = Event("unmount", 0)
  /\ UNCHANGED <<aliceLocation, ticks, blips, waypoints, routes, selectedRouteIndex,
                 isLoadingRoute, selection, selectedWaypoint, selectedBlip, userLocation,
                 isDrawing, drawnPolygon, requests, cleanup, now, singleVars>>

\* The component unmounts: React runs the cleanup of every effect
\* (clearInterval(interval); isMounted = false).
Unmount ==
  /\ mounted
  /\ mounted' = FALSE
  /\ requests' = RunCleanup(requests, cleanup)
  /\ cleanup' = 0
  /\ lastEvent' = Event("unmount", 0)
  /\ UNCHANGED <<aliceLocation, ticks, blips, waypoints, routes, selectedRouteIndex, isLoadingRoute,
                 selection, selectedWaypoint, selectedBlip, userLocation, isDrawing,
                 drawnPolygon, now, singleVars>>

Next ==
  \/ \E c \in Coords : SurfaceClick(c)
  \/ \E i \in 1..MaxBlips, c \in Coords : BlipMarkerClick(i, c)
  \/ \E i \in 1..MaxWaypoints, c \in Coords : WaypointMarkerClick(i, c)
  \/ CloseSelectionPopup
  \/ CloseWaypointPopup
  \/ CloseBlipPopup
  \/ addBlip
  \/ addWaypoint
  \/ deleteWaypoint
  \/ routeToBlip
  \/ \E c \in Coords : Locate(c)
  \/ toggleDrawing
  \/ clearWaypoints
  \/ clearDrawnArea
  \/ \E index \in 0..(MaxAlts - 1) : selectRoute(index)
  \/ \E k \in 1..MaxAlts, algorithm \in SortAlgorithms : clickRoute(k, algorithm)
  \/ \E s \in Slots : Response(s)
  \/ Tick
  \/ ClockAdvance
  \/ Unmount

Spec == Init /\ [][Next]_vars

\* Variant of fetchRoute whose catch block returns [].
fetchRouteEmptyOnFailure(wps, outcome) ==
  IF Len(wps) < 2 THEN <<>>
  ELSE IF outcome.kind \in FailureKinds THEN <<>>
  ELSE IF outcome.kind # "json" THEN <<>>
  ELSE LET body == Body(outcome, wps) IN
       IF Len(body) = 0 THEN <<>>
       ELSE IF body[1].geometry = Null THEN <<>>
       ELSE Val(body[1].geometry)

\* ------------------------------------------- the single-route App (App.tsx)
\* fetchRoute: the first route's geometry; the waypoints themselves when
\* anything inside the try block throws.
fetchRoute(wps, outcome) ==
  IF Len(wps) < 2 THEN <<>>
  ELSE IF outcome.kind \in FailureKinds THEN wps
  ELSE IF outcome.kind # "json" THEN <<>>
  ELSE LET body == Body(outcome, wps) IN
       IF Len(body) = 0 THEN <<>>
       ELSE IF body[1].geometry = Null THEN wps
       ELSE Val(body[1].geometry)

sFreeSlots == {s \in Slots : sRequests[s] = Null}

sWithinBounds(w) == Len(w) <= MaxWaypoints /\ (Len(w) >= 2 => sFreeSlots # {})

\* The effect on [waypoints] of App.tsx.
sWaypointsEffect(w, rt) ==
  LET cleaned == RunCleanup(sRequests, sCleanup) IN
  IF Len(w) < 2
  THEN /\ sRoute' = <<>>
       /\ sRequests' = cleaned
       /\ sCleanup' = 0
  ELSE LET s == LowestFree(cleaned) IN
       /\ sRoute' = rt
       /\ sRequests' = [cleaned EXCEPT ![s] = Some([wps |-> w, isMounted |-> TRUE])]
       /\ sCleanup' = s

\* handleMapClick of App.tsx for a click outside every marker (a click on a
\* marker returns at once).
sSurfaceClick(c) ==
  /\ sSelection' = Some(Coord(c))
  /\ lastEvent' = Event("sSurfaceClick", 0)
  /\ UNCHANGED <<appVars, sWaypoints, sRoute, sBlips, sRequests, sCleanup>>

sClosePopup ==
  /\ sSelection # Null
  /\ sSelection' = Null
  /\ lastEvent' = Event("sClosePopup", 0)
  /\ UNCHANGED <<appVars, sWaypoints, sRoute, sBlips, sRequests, sCleanup>>

\* addBlip of App.tsx
sAddBlip ==
  /\ Len(sBlips) < MaxBlips
  /\ IF sSelection = Null
     THEN UNCHANGED <<sBlips, sSelection>>
     ELSE /\ sBlips' = Append(sBlips, [id |-> now, longitude |-> Val(sSelection).lng,
                                       latitude |-> Val(sSelection).lat, text |-> Len(sBlips) + 1])
          /\ sSelection' = Null
  /\ lastEvent' = Event("sAddBlip", 0)
  /\ UNCHANGED <<appVars, sWaypoints, sRoute, sRequests, sCleanup>>

\* addWaypoint of App.tsx
sAddWaypoint ==
  /\ IF sSelection = Null
     THEN UNCHANGED <<sWaypoints, sSelection, sRoute, sRequests, sCleanup>>
     ELSE LET w == AppendWaypoint(sWaypoints, Val(sSelection)) IN
          /\ sWithinBounds(w)
          /\ sWaypoints' = w
          /\ sSelection' = Null
          /\ sWaypointsEffect(w, sRoute)
  /\ lastEvent' = Event("sAddWaypoint", 0)
  /\ UNCHANGED <<appVars, sBlips>>

\* The Clear Route button: setWaypoints([]); setRoute([])
sClearRoute ==
  /\ Len(sWaypoints) > 0
  /\ sWaypoints' = <<>>
  /\ sWaypointsEffect(<<>>, <<>>)
  /\ lastEvent' = Event("sClearRoute", 0)
  /\ UNCHANGED <<appVars, sSelection, sBlips>>

\* fetchRoute(waypoints).then(routeCords => { if (isMounted) setRoute(routeCords); })
\* for the call in slot s; o is the outcome of its fetch.
sResponse(s) ==
  /\ sRequests[s] # Null
  /\ LET r == Val(sRequests[s]) IN
     /\ sRequests' = [sRequests EXCEPT ![s] = Null]
     /\ IF r.isMounted
        THEN \E o \in Outcomes :
               /\ sRoute' = fetchRoute(r.wps, o)
               /\ lastEvent' = ResponseEvent("sResponseApplied", s, o)
        ELSE /\ UNCHANGED sRoute
             /\ lastEvent' = Event("sResponseDropped", s)
  /\ UNCHANGED <<appVars, sWaypoints, sSelection, sBlips, sCleanup>>

NextSingle ==
  \/ \E c \in Coords : sSurfaceClick(c)
  \/ sClosePopup
  \/ sAddBlip
  \/ sAddWaypoint
  \/ sClearRoute
  \/ \E s \in Slots : sResponse(s)

SpecSingle == Init /\ [][NextSingle]_vars

\* ------------------------------------------------------------------ slices
\* The route coordinator under the handlers that edit the waypoint sequence
\* from the map (add, delete, clear, toggle drawing) and the responses of
\* the routing service.  Clicks made while drawing only append to
\* drawnPolygon, which no handler of this slice reads.
\* The responses taken are those that leave fewer than MaxAlts
\* alternatives stored; the slice of the display takes them all.
NextRoute ==
  \/ \E c \in Coords : ~isDrawing /\ SurfaceClick(c)
  \/ \E i \in 1..MaxWaypoints, c \in Coords : ~isDrawing /\ WaypointMarkerClick(i, c)
  \/ CloseSelectionPopup
  \/ CloseWaypointPopup
  \/ addWaypoint
  \/ deleteWaypoint
  \/ toggleDrawing
  \/ clearWaypoints
  \/ \E index \in 0..(MaxAlts - 1) : selectRoute(index)
  \/ \E s \in Slots : Response(s) /\ Len(routes') < MaxAlts

SpecRoute == Init /\ [][NextRoute]_vars

\* The part of the App that draws an area: clicks in either mode, a first
\* and a second waypoint, the Draw Area / Finish Drawing button, Clear Area
\* and the responses of the routing service.
NextDraw ==
  \/ \E c \in Coords : SurfaceClick(c)
  \/ \E i \in 1..MaxBlips, c \in Coords : BlipMarkerClick(i, c)
  \/ \E i \in 1..MaxWaypoints, c \in Coords : WaypointMarkerClick(i, c)
  \/ Len(waypoints) < 2 /\ addWaypoint
  \/ toggleDrawing
  \/ clearDrawnArea
  \/ \E s \in Slots : Response(s)

SpecDraw == Init /\ [][NextDraw]_vars

\* The part of the App that runs in the background: the simulation interval,
\* a route request for two waypoints and its response, and the unmount.
NextSim ==
  \/ \E c \in Coords : ~isDrawing /\ SurfaceClick(c)
  \/ Len(waypoints) < 2 /\ addWaypoint
  \/ \E s \in Slots : Response(s)
  \/ Tick
  \/ Unmount

SpecSim == Init /\ [][NextSim]_vars

\* The part of the App that handles blips: clicks outside drawing mode, Add
\* Blip, the popups and the clock read by Add Blip.
NextBlips ==
  \/ \E c \in Coords : ~isDrawing /\ SurfaceClick(c)
  \/ \E i \in 1..MaxBlips, c \in Coords : ~isDrawing /\ BlipMarkerClick(i, c)
  \/ CloseSelectionPopup
  \/ CloseBlipPopup
  \/ addBlip
  \/ ClockAdvance

SpecBlips == Init /\ [][NextBlips]_vars

\* The part of the App that shows the alternatives of a route between two
\* waypoints: the request and its response, the route buttons and the
\* routes drawn on the map.
NextDisplay ==
  \/ \E c \in Coords : ~isDrawing /\ SurfaceClick(c)
  \/ Len(waypoints) < 2 /\ addWaypoint
  \/ \E s \in Slots : Response(s)
  \/ \E index \in 0..(MaxAlts - 1) : selectRoute(index)
  \/ \E k \in 1..MaxAlts, algorithm \in SortAlgorithms : clickRoute(k, algorithm)

SpecDisplay == Init /\ [][NextDisplay]_vars

\* The part of the App that loads routes, with the scheduling of the
\* responses: the promise of every fetchRoutes call settles (fetchRoutes
\* catches what fetch throws) and the event loop then runs its callback, so
\* a request that stays outstanding is eventually answered.  What the user
\* does is under no fairness: the user may stop at any time.
NextLoading ==
  \/ \E c \in Coords : ~isDrawing /\ SurfaceClick(c)
  \/ \E i \in 1..MaxWaypoints, c \in Coords : ~isDrawing /\ WaypointMarkerClick(i, c)
  \/ Len(waypoints) < 2 /\ addWaypoint
  \/ deleteWaypoint
  \/ toggleDrawing
  \/ clearWaypoints
  \/ \E s \in Slots : Response(s)

SpecLoading ==
  /\ Init
  /\ [][NextLoading]_vars
  /\ \A s \in Slots : WF_vars(Response(s))

\* The part of the App that routes from the user's location to a blip: the
\* locate control, clicks on the map and on blip markers, a first and a
\* second waypoint, the Route from my location button and the responses.
NextLocate ==
  \/ \E c \in Coords : ~isDrawing /\ SurfaceClick(c)
  \/ \E i \in 1..MaxBlips, c \in Coords : ~isDrawing /\ BlipMarkerClick(i, c)
  \/ Len(waypoints) < 2 /\ addWaypoint
  \/ \E c \in Coords : Locate(c)
  \/ routeToBlip
  \/ \E s \in Slots : Response(s)

SpecLocate == Init /\ [][NextLocate]_vars

\* ------------------------------------------------------------------ claims
Max(a, b) == IF a >= b THEN a ELSE b

\* The state is the one right after a response was applied; lastEvent.outcome
\* is the outcome of its fetch.
JustApplied == lastEvent.op = "responseApplied"

\* The body parsed and every route object in it is complete.
WellFormed(o) == o.kind = "json" /\ \A i \in 1..Len(o.routes) : o.routes[i] = "ok"

\* The alternatives the service listed in a well-formed body for the query wps.
Alternatives(o, wps) ==
  [i \in 1..Len(o.routes) |->
     [coordinates |-> RouteGeometry(i, wps), duration |-> 600 * i, distance |-> 5000 * i]]

\* The call in slot s is not the one issued for the current waypoint sequence.
Superseded(s) == s # cleanup \/ Val(requests[s]).wps # waypoints

\* C1: when the response of a request arrives after the waypoint sequence has
\* changed again (the request was superseded), it changes neither the
\* alternative set, nor the active index, nor isLoadingRoute, whatever the
\* arrival order and whether it is a success or a failure.
C1_SupersededResponseNeverApplied ==
  [][\A s \in Slots :
       (requests[s] # Null /\ requests'[s] = Null /\ Superseded(s))
         => UNCHANGED <<routes, selectedRouteIndex, isLoadingRoute>>]_vars

\* The response of a superseded request arrived after the result for the
\* current sequence had been applied, and that result is still stored.
C1_Witness ==
  /\ lastEvent.op = "responseDropped"
  /\ Len(waypoints) >= 2
  /\ ~isLoadingRoute
  /\ routes # <<>>
  /\ routes[1].coordinates = RouteGeometry(1, waypoints)

\* C2: whenever the waypoint sequence has fewer than two entries the
\* alternative set is empty, and every route request in flight was issued for
\* a sequence of at least two entries.
C2_ShortSequenceHasNoRoutes ==
  /\ Len(waypoints) < 2 => routes = <<>>
  /\ \A s \in Slots : requests[s] # Null => Len(Val(requests[s]).wps) >= 2

\* A late response arrived while the sequence had a single entry.
C2_Witness ==
  /\ lastEvent.op = "responseDropped"
  /\ Len(waypoints) = 1
  /\ routes = <<>>

\* C3: the active route index always satisfies
\* 0 <= selectedRouteIndex < max(1, len(routes)).
C3_IndexWithinAlternatives ==
  /\ 0 <= selectedRouteIndex
  /\ selectedRouteIndex < Max(1, Len(routes))

\* C4: while the component is mounted, isLoadingRoute is true exactly when the
\* request issued for the current waypoint sequence is still outstanding.
C4_LoadingIffCurrentOutstanding ==
  mounted => (isLoadingRoute <=> (cleanup # 0 /\ requests[cleanup] # Null))

\* C5 as stated: when a well-formed response for the current sequence is
\* applied, routes becomes the list of alternatives of the response, the
\* active index becomes 0, and 0 <= selectedRouteIndex < len(routes).
C5_AppliedResponseIndexBelowLength ==
  (JustApplied /\ WellFormed(lastEvent.outcome))
    => /\ routes = Alternatives(lastEvent.outcome, waypoints)
       /\ selectedRouteIndex = 0
       /\ selectedRouteIndex < Len(routes)

\* C5 as amended: when a well-formed response for the current sequence is
\* applied, routes becomes the list of alternatives of the response, the
\* active index becomes 0, and 0 <= selectedRouteIndex < max(1, len(routes));
\* selectedRouteIndex < len(routes) when the response lists an alternative.
C5_AppliedResponseReplacesRoutes ==
  (JustApplied /\ WellFormed(lastEvent.outcome))
    => /\ routes = Alternatives(lastEvent.outcome, waypoints)
       /\ selectedRouteIndex = 0
       /\ selectedRouteIndex < Max(1, Len(routes))
       /\ Len(lastEvent.outcome.routes) >= 1 => selectedRouteIndex < Len(routes)

\* A response with two alternatives has just been applied.
C5_Witness ==
  /\ JustApplied
  /\ Len(lastEvent.outcome.routes) = 2
  /\ Len(routes) = 2
  /\ routes[2].coordinates = RouteGeometry(2, waypoints)
  /\ selectedRouteIndex = 0

\* The fetch failed, or the body carries no list of complete route objects
\* with at least one entry.
FailedOrEmpty(o) == ~(WellFormed(o) /\ Len(o.routes) >= 1)

\* C6: when the request for the current sequence fails (network error, status
\* not ok, parse exception, routes absent or malformed) or lists no route, the
\* alternative set becomes empty, isLoadingRoute becomes false, and waypoints,
\* blips, the selection and the drawn area are unchanged.
C6_FailureGivesEmptySet ==
  [][(\E s \in Slots : Response(s)) /\ JustApplied' /\ FailedOrEmpty(lastEvent'.outcome)
       => /\ routes' = <<>>
          /\ isLoadingRoute' = FALSE
          /\ UNCHANGED <<waypoints, blips, selection, selectedWaypoint, selectedBlip,
                         drawnPolygon>>]_vars

\* The state is the one right after a response was applied in the
\* single-route App.
sJustApplied == lastEvent.op = "sResponseApplied"

\* C7 as stated: in the single-route App a failed fetch (status not ok,
\* request or parse exception) for the current sequence leaves the stored
\* route empty.
C7_SingleFailureGivesEmptyRoute ==
  (sJustApplied /\ lastEvent.outcome.kind \in FailureKinds) => sRoute = <<>>

\* C7 as amended: in the single-route App a failed fetch for the current
\* sequence stores the waypoint sequence itself as the route (a straight line
\* through the waypoints); the stored route is empty when the body parses and
\* carries no route.
C7_SingleFailureGivesStraightLine ==
  sJustApplied
    => /\ lastEvent.outcome.kind \in FailureKinds
            => (sRoute = sWaypoints /\ Len(sRoute) >= 2)
       /\ (lastEvent.outcome.kind \in {"routesAbsent", "routesNotAList"}
             \/ (lastEvent.outcome.kind = "json" /\ lastEvent.outcome.routes = <<>>))
            => sRoute = <<>>

\* A failed response has just been applied and the route is the straight line.
C7_Witness ==
  /\ sJustApplied
  /\ lastEvent.outcome.kind = "httpError"
  /\ Len(sWaypoints) >= 2
  /\ sRoute = sWaypoints

\* C8: at most one of the selection variants Point (selection), WaypointRef
\* (selectedWaypoint) and PointOfInterestRef (selectedBlip) is active.
C8_AtMostOneSelectionVariant ==
  (IF selection # Null THEN 1 ELSE 0)
    + (IF selectedWaypoint # Null THEN 1 ELSE 0)
    + (IF selectedBlip # Null THEN 1 ELSE 0) <= 1

\* The index handed to deleteWaypoint is a position of the sequence.
DeleteInRange == Val(selectedWaypoint).index \in 0..(Len(waypoints) - 1)

\* C9: deleteWaypoint(i) with 0 <= i < len removes exactly the entry at
\* position i: the entries before i keep their position, every entry at a
\* position j > i moves to j - 1, the length decreases by one, and the
\* WaypointRef selection is cleared (the selection is None when no other
\* variant was active).
C9_DeleteRemovesPositionI ==
  [][(deleteWaypoint /\ DeleteInRange)
       => LET i == Val(selectedWaypoint).index
              n == Len(waypoints)
          IN /\ Len(waypoints') = n - 1
             /\ \A j \in 1..i : waypoints'[j] = waypoints[j]
             /\ \A j \in (i + 2)..n : waypoints'[j - 1] = waypoints[j]
             /\ selectedWaypoint' = Null
             /\ (selection = Null /\ selectedBlip = Null)
                  => (selection' = Null /\ selectedBlip' = Null)]_vars

\* The middle entry of three waypoints has just been deleted.
C9_Witness ==
  /\ lastEvent = Event("deleteWaypoint", 1)
  /\ Len(waypoints) = 2
  /\ selectedWaypoint = Null

\* C10: deleteWaypoint with an index outside [0, len) leaves the waypoint
\* sequence, the selection, the alternative set, the active index,
\* isLoadingRoute and the route requests as they were.
C10_OutOfRangeDeleteChangesNothing ==
  [][(deleteWaypoint /\ ~DeleteInRange)
       => UNCHANGED <<waypoints, selection, selectedWaypoint, selectedBlip, routes,
                      selectedRouteIndex, isLoadingRoute, requests, cleanup>>]_vars

C12_StartDrawingClearsWaypointsAndArea ==
  [][(toggleDrawing /\ ~isDrawing)
       => /\ isDrawing'
          /\ waypoints' = <<>>
          /\ drawnPolygon' = <<>>
          /\ routes' = <<>>]_vars

\* Drawing has just been switched on over a drawn area and a waypoint
\* sequence whose route request was in flight.
C12_Witness ==
  /\ lastEvent.op = "toggleDrawing"
  /\ lastEvent.arg >= 1
  /\ isDrawing
  /\ isLoadingRoute
  /\ waypoints = <<>>
  /\ drawnPolygon = <<>>
  /\ routes = <<>>

\* C13: toggleDrawing pressed while drawing is off leaves selection,
\* selectedWaypoint and selectedBlip all null.
C13_StartDrawingClearsSelection ==
  [][(toggleDrawing /\ ~isDrawing)
       => (selection' = Null /\ selectedWaypoint' = Null /\ selectedBlip' = Null)]_vars

\* C14: toggleDrawing pressed while drawing is on switches drawing off and
\* leaves drawnPolygon (and waypoints) as they were.
C14_FinishDrawingKeepsArea ==
  [][(toggleDrawing /\ isDrawing)
       => /\ ~isDrawing'
          /\ drawnPolygon' = drawnPolygon
          /\ waypoints' = waypoints]_vars

\* Drawing was finished after two clicks at different points.
C14_Witness ==
  /\ lastEvent = Event("toggleDrawing", 2)
  /\ ~isDrawing
  /\ drawnPolygon = <<InitialBlipCoord, OtherCoord>>
  /\ waypoints = <<>>

\* C15: while drawing is on, every click (on the surface, on a blip marker or
\* on a waypoint marker) appends the clicked coordinate to drawnPolygon and
\* leaves selection, selectedWaypoint and selectedBlip as they were.
C15_DrawingClickOnlyAppendsVertex ==
  [][\A c \in Coords :
       (isDrawing /\ (\/ SurfaceClick(c)
                      \/ \E i \in 1..MaxBlips : BlipMarkerClick(i, c)
                      \/ \E i \in 1..MaxWaypoints : WaypointMarkerClick(i, c)))
         => /\ drawnPolygon' = Append(drawnPolygon, c)
            /\ UNCHANGED <<selection, selectedWaypoint, selectedBlip>>]_vars

\* C16: after N ticks from the start of the path (index 0), the coordinate
\* of the simulated friend is alicePath[(0 + N) mod L], L the length of
\* alicePath (0-based indices).
C16_TickFollowsPathModuloLength ==
  aliceLocation = alicePath[(ticks % Len(alicePath)) + 1]

\* C17: once the component is unmounted, no step changes the simulated
\* friend's coordinate, and no response changes routes, selectedRouteIndex
\* or isLoadingRoute.
C17_NothingAppliedAfterUnmount ==
  [][~mounted => UNCHANGED <<aliceLocation, ticks, routes, selectedRouteIndex,
                             isLoadingRoute>>]_vars

\* The response of a request that was outstanding at the unmount arrived
\* after it, the interval having fired before.
C17_Witness ==
  /\ ~mounted
  /\ lastEvent.op = "responseDropped"
  /\ isLoadingRoute
  /\ ticks >= 1
  /\ Len(waypoints) = 2

\* C18: the blips have pairwise distinct ids, whatever the clock readings at
\* which they were added.
C18_BlipIdsDistinct ==
  \A i, j \in 1..Len(blips) : i # j => blips[i].id # blips[j].id

\* The slots in which this step puts a new route request.
Issued == {s \in Slots : requests[s] = Null /\ requests'[s] # Null}

\* C19: addWaypoint puts the selected coordinate at the end of waypoints and
\* leaves the existing entries in place; every step that changes waypoints
\* to a sequence of two or more entries issues exactly one route request,
\* which carries the whole new sequence in its order, longitude before
\* latitude in each pair.
C19_AppendAndRequestWholeSequence ==
  [][/\ (addWaypoint /\ selection # Null)
          => /\ Len(waypoints') = Len(waypoints) + 1
             /\ \A j \in 1..Len(waypoints) : waypoints'[j] = waypoints[j]
             /\ waypoints'[Len(waypoints')] = <<Val(selection).lng, Val(selection).lat>>
     /\ (waypoints' # waypoints /\ Len(waypoints') >= 2)
          => /\ Cardinality(Issued) = 1
             /\ \A s \in Issued :
                  LET r == Val(requests'[s]) IN
                  /\ cleanup' = s
                  /\ r.isMounted
                  /\ r.wps = waypoints'
                  /\ Len(r.coords) = 2 * Len(waypoints')
                  /\ \A k \in 1..Len(waypoints') :
                       /\ r.coords[2 * k - 1] = waypoints'[k][1]
                       /\ r.coords[2 * k] = waypoints'[k][2]]_vars

\* A third waypoint, different from the first, has just been added and its
\* request is in flight.
C19_Witness ==
  /\ lastEvent.op = "addWaypoint"
  /\ Len(waypoints) = 3
  /\ waypoints[1] # waypoints[3]
  /\ cleanup # 0
  /\ requests[cleanup] # Null
  /\ Val(requests[cleanup]).coords = CoordString(waypoints)

\* b holds the elements of a, each as often as a does.
IsPermutation(a, b) ==
  /\ Len(a) = Len(b)
  /\ \A x \in {a[k] : k \in 1..Len(a)} :
       Cardinality({k \in 1..Len(a) : a[k] = x}) = Cardinality({k \in 1..Len(b) : b[k] = x})

\* C20: whatever the sort algorithm, the display order is a permutation of
\* routes whose last element is the active alternative, every displayed
\* alternative is found in routes at its canonical index, and a click on a
\* displayed alternative sets selectedRouteIndex to that index and leaves
\* routes as it was.
C20_DisplayOrderActiveLast ==
  /\ [](\A algorithm \in SortAlgorithms :
          LET shown == sortedRoutes(algorithm) IN
          /\ IsPermutation(routes, shown)
          /\ routes # <<>> => shown[Len(shown)] = routes[selectedRouteIndex + 1]
          /\ \A k \in 1..Len(shown) :
               /\ indexOf(routes, shown[k]) \in 0..(Len(routes) - 1)
               /\ routes[indexOf(routes, shown[k]) + 1] = shown[k])
  /\ [][\A k \in 1..MaxAlts, algorithm \in SortAlgorithms :
          clickRoute(k, algorithm)
            => /\ routes[selectedRouteIndex' + 1] = sortedRoutes(algorithm)[k]
               /\ routes' = routes]_vars

\* Three alternatives are stored and the middle one, selected by a click on
\* the map, is the active one.
C20_Witness ==
  /\ lastEvent = Event("clickRoute", 1)
  /\ Len(routes) = 3
  /\ selectedRouteIndex = 1
  /\ sortedRoutes("binaryInsertion") = <<routes[3], routes[1], routes[2]>>
  /\ sortedRoutes("insertion") = <<routes[1], routes[3], routes[2]>>

\* C21: with drawing off, a click on the map surface outside every marker
\* makes the selection exactly the clicked point and discards the selected
\* waypoint and the selected blip; a click on a marker with drawing off
\* leaves the point selection as it was.
C21_SurfaceClickSelectsPoint ==
  [][/\ \A c \in Coords :
          (~isDrawing /\ SurfaceClick(c)) =>
             /\ selection' = Some([lng |-> c[1], lat |-> c[2]])
             /\ selectedWaypoint' = Null
             /\ selectedBlip' = Null
     /\ \A c \in Coords :
          (/\ ~isDrawing
           /\ \/ \E i \in 1..MaxBlips : BlipMarkerClick(i, c)
              \/ \E i \in 1..MaxWaypoints : WaypointMarkerClick(i, c)) =>
             selection' = selection]_vars

C21_Witness ==
  /\ lastEvent.op = "surfaceClick"
  /\ ~isDrawing
  /\ selection = Some([lng |-> -122400, lat |-> 37800])
  /\ selectedWaypoint = Null
  /\ selectedBlip = Null
  /\ Len(waypoints) > 0

\* C22: whenever a waypoint is selected, its index is a position of the
\* current waypoint sequence and the waypoint at that position has the
\* selected coordinate.
C22_SelectedWaypointIsCurrent ==
  selectedWaypoint # Null =>
    /\ Val(selectedWaypoint).index \in 0..(Len(waypoints) - 1)
    /\ waypoints[Val(selectedWaypoint).index + 1] =
         <<Val(selectedWaypoint).lng, Val(selectedWaypoint).lat>>

\* C23: if every issued request is eventually answered (the fairness of
\* SpecLoading) and the waypoint sequence eventually stops changing, then
\* isLoadingRoute is eventually false and stays false.
C23_LoadingEventuallyEnds ==
  (<>[][waypoints' = waypoints]_vars) => <>[](~isLoadingRoute)

\* C24: whenever isLoadingRoute is false, the stored alternatives are what
\* fetchRoutes gives for the current waypoint sequence under some answer of
\* the routing service: nothing for a sequence of fewer than two entries or
\* a failed request, and otherwise routes drawn through the current
\* waypoints, never through those of an earlier, different sequence.
C24_RoutesBelongToCurrentSequence ==
  ~isLoadingRoute =>
    IF Len(waypoints) < 2
    THEN routes = <<>>
    ELSE \E o \in Outcomes :
           /\ routes = fetchRoutes(waypoints, o)
           /\ WellFormed(o) => routes = Alternatives(o, waypoints)
           /\ o.kind # "json" => routes = <<>>

\* The result for the current two-entry sequence is stored while the
\* request issued for an earlier, different sequence is still in flight.
C24_Witness ==
  /\ lastEvent.op = "responseApplied"
  /\ ~isLoadingRoute
  /\ Len(waypoints) = 2
  /\ Len(routes) = 2
  /\ routes = Alternatives(lastEvent.outcome, waypoints)
  /\ \E s \in Slots : requests[s] # Null /\ Val(requests[s]).wps # waypoints

\* C25: with a user location known and a blip selected, routeToBlip makes
\* the waypoint sequence exactly [userLocation, blip coordinate], clears the
\* selected blip, supersedes every request in flight and issues one request
\* for the new sequence; with no user location known it changes no state.
C25_RouteToBlipReplacesWaypoints ==
  [][routeToBlip =>
       IF userLocation # Null
       THEN /\ waypoints' = <<Val(userLocation),
                               <<Val(selectedBlip).longitude, Val(selectedBlip).latitude>> >>
            /\ selectedBlip' = Null
            /\ \A s \in Slots :
                 requests[s] # Null =>
                   requests'[s] # Null /\ ~Val(requests'[s]).isMounted
            /\ \E s \in Slots :
                 /\ Issued = {s}
                 /\ cleanup' = s
                 /\ Val(requests'[s]).isMounted
                 /\ Val(requests'[s]).wps = waypoints'
                 /\ Val(requests'[s]).coords =
                      <<waypoints'[1][1], waypoints'[1][2], waypoints'[2][1], waypoints'[2][2]>>
            /\ isLoadingRoute'
            /\ UNCHANGED <<blips, userLocation, selection, selectedWaypoint, routes,
                           selectedRouteIndex, isDrawing, drawnPolygon>>
       ELSE UNCHANGED <<appVars, singleVars>>]_vars

\* Route from my location was pressed with two waypoints set and their
\* request in flight: the sequence is the pair of the user's location and
\* the blip, and the earlier request is superseded.
C25_Witness ==
  /\ lastEvent.op = "routeToBlip"
  /\ userLocation # Null
  /\ waypoints = <<Val(userLocation), InitialBlipCoord>>
  /\ selectedBlip = Null
  /\ isLoadingRoute
  /\ cleanup # 0
  /\ \E s \in Slots :
       /\ s # cleanup
       /\ requests[s] # Null
       /\ ~Val(requests[s]).isMounted
       /\ Val(requests[s]).wps # waypoints

\* No popup is open: no point, no waypoint and no blip is selected.
SelectionIsNone == selection = Null /\ selectedWaypoint = Null /\ selectedBlip = Null

\* C26: addWaypoint and addBlip act only when a point is selected: they then
\* append one entry carrying the point's coordinate (to waypoints, or to
\* blips) and leave nothing selected; with no point selected they leave
\* waypoints, blips and the selection unchanged.
C26_AddActsOnlyOnPoint ==
  [][(addWaypoint \/ addBlip) =>
       IF selection # Null
       THEN /\ addWaypoint =>
                 /\ waypoints' = Append(waypoints, <<Val(selection).lng, Val(selection).lat>>)
                 /\ UNCHANGED blips
            /\ addBlip =>
                 /\ Len(blips') = Len(blips) + 1
                 /\ SubSeq(blips', 1, Len(blips)) = blips
                 /\ blips'[Len(blips')].longitude = Val(selection).lng
                 /\ blips'[Len(blips')].latitude = Val(selection).lat
                 /\ UNCHANGED waypoints
            /\ SelectionIsNone'
       ELSE UNCHANGED <<waypoints, blips, selection, selectedWaypoint, selectedBlip>>]_vars

====
